---- MODULE Spec2Model ----
(***************************************************************************)
(* Sheet-backed record store of save-earth-ride: the blog helpers          *)
(* (lib/blogSheetHelpers.ts), the blog route handlers                      *)
(* (app/api/blog/route.ts), the drive helpers (lib/driveSheetHelpers.ts)   *)
(* and the RunningBanner component.                                        *)
(*                                                                         *)
(* Conventions.  A sheet row is a tuple of cells, row[i] of the source     *)
(* being r[i+1] here.  Text cells are strings and "" is the blank cell.    *)
(* A timestamp (toISOString) is the clock value it was taken at, a         *)
(* positive number, and 0 is the blank cell; toISOString is injective      *)
(* and monotone, so nothing is lost.  The tags cell is a sequence of       *)
(* one-character strings so that join and split are computed.              *)
(* Every sheet API call is one atomic step of the remote service and       *)
(* takes one clock unit.                                                   *)
(***************************************************************************)
EXTENDS Integers, Sequences, FiniteSets, TLC

VARIABLES blogRows,   \* the blog tab from row 2 on (range A2:Q)
          driveRows,  \* the drives tab from row 1 on (range A:R)
          otherRows,  \* a third tab of the spreadsheet (admins)
          sheet0,     \* the tab whose sheetId is 0
          sheets,     \* the titles of the spreadsheet's tabs
          now,        \* the clock
          st,         \* per client: the call in flight, its locals, its result
          banner      \* the RunningBanner component and its environment

vars == <<blogRows, driveRows, otherRows, sheet0, sheets, now, st, banner>>

\* ---------------------------------------------------------------- bounds
MaxTime == 6        \* sheet API calls in one behaviour
MaxDrives == 3      \* drives in a list the admin panel stores or pushes
MaxRows == 2        \* blog rows a call that appends may start from
TicksPerDay == 4    \* clock units in one calendar day
MaxLen == 3         \* characters in a tags cell

\* ------------------------------------------------------- JS conversions
NaN == -1

DigitStr == <<"1", "2", "3", "4", "5", "6", "7", "8", "9">>

\* String(n), n.toString()
String(n) == IF n = 0 THEN "0" ELSE IF n = NaN THEN "NaN" ELSE DigitStr[n]

\* Number(s): the blank string is 0, a decimal numeral its value, else NaN
Number(s) ==
    IF s = "" \/ s = "0" THEN 0
    ELSE IF \E n \in DOMAIN DigitStr : DigitStr[n] = s
         THEN CHOOSE n \in DOMAIN DigitStr : DigitStr[n] = s
         ELSE NaN

\* x || d for a number x: 0 and NaN are falsy
OrNum(x, d) == IF x = 0 \/ x = NaN THEN d ELSE x

\* s || d for a string s: "" is falsy
OrStr(s, d) == IF s = "" THEN d ELSE s

\* s.toLowerCase() on the titles that occur
toLowerCase(s) == CASE s = "A" -> "a" [] s = "B" -> "b" [] OTHER -> s

\* new Date().toISOString().split('T')[0] at clock value t
DateOf(t) == (t \div TicksPerDay) + 1

\* Math.max(...xs) of a non-empty sequence of numbers
MathMax(xs) == CHOOSE m \in {xs[i] : i \in DOMAIN xs} : \A i \in DOMAIN xs : xs[i] <= m

\* tags.join(', ')
RECURSIVE JoinTags(_)
JoinTags(tags) ==
    IF Len(tags) = 0 THEN <<>>
    ELSE IF Len(tags) = 1 THEN tags[1]
    ELSE tags[1] \o <<",", " ">> \o JoinTags(Tail(tags))

\* s.split(',')
RECURSIVE SplitComma(_)
SplitComma(s) ==
    IF \A i \in DOMAIN s : s[i] # ","
    THEN <<s>>
    ELSE LET i == CHOOSE j \in DOMAIN s : s[j] = "," /\ \A k \in 1..(j - 1) : s[k] # ","
         IN  <<SubSeq(s, 1, i - 1)>> \o SplitComma(SubSeq(s, i + 1, Len(s)))

\* tag.trim()
RECURSIVE Trim(_)
Trim(s) ==
    IF Len(s) = 0 THEN s
    ELSE IF s[1] = " " THEN Trim(Tail(s))
    ELSE IF s[Len(s)] = " " THEN Trim(SubSeq(s, 1, Len(s) - 1))
    ELSE s

\* the tags of a cell split at the commas and left untrimmed
ParseTagsNoTrim(cell) == IF Len(cell) = 0 THEN <<>> ELSE SplitComma(cell)

\* row[8] ? row[8].split(',').map(tag => tag.trim()) : []
ParseTags(cell) ==
    IF Len(cell) = 0 THEN <<>>
    ELSE LET parts == SplitComma(cell) IN [i \in DOMAIN parts |-> Trim(parts[i])]

\* ------------------------------------------------------------ blog records
\* readBlogFromSheet's row mapping, applied to the rows of A2:Q at clock t
BlogOfRow(row, index, t) ==
    [id           |-> OrNum(Number(row[1]), index + 1),
     title        |-> OrStr(row[2], ""),
     excerpt      |-> OrStr(row[3], ""),
     content      |-> OrStr(row[4], ""),
     blogURL      |-> OrStr(row[5], ""),
     authorName   |-> OrStr(row[6], ""),
     authorBio    |-> OrStr(row[7], ""),
     authorAvatar |-> OrStr(row[8], ""),
     tags         |-> ParseTags(row[9]),
     image        |-> OrStr(row[10], ""),
     readTime     |-> OrStr(row[11], ""),
     featured     |-> (row[12] = "true"),
     status       |-> OrStr(row[13], "draft"),
     category     |-> OrStr(row[14], ""),
     date         |-> OrNum(row[15], DateOf(t)),
     createdAt    |-> OrNum(row[16], t),
     updatedAt    |-> OrNum(row[17], t)]

\* rows.map((row, index) => ...): index is 0-based in the source
readBlogFromSheet(rows, t) == [i \in DOMAIN rows |-> BlogOfRow(rows[i], i - 1, t)]

\* the row writeBlogToSheet builds for a record (updates and appends alike)
RowValues(blog) ==
    <<String(blog.id), blog.title, blog.excerpt, blog.content, blog.blogURL,
      blog.authorName, blog.authorBio, blog.authorAvatar, JoinTags(blog.tags),
      blog.image, blog.readTime, IF blog.featured THEN "true" ELSE "false",
      blog.status, blog.category, blog.date, blog.createdAt, blog.updatedAt>>

\* a comparison that leaves the title out
hasBlogChangedNoTitle(existing, incoming) ==
    \E field \in {"excerpt", "content", "status", "category", "date"} :
        existing[field] # incoming[field]

fieldsToCompare ==
    {"title", "excerpt", "content", "blogURL", "authorName", "authorBio",
     "authorAvatar", "image", "readTime", "featured", "status", "category", "date"}

\* existing[field] || '' compared with incoming[field] || '': the falsy values
\* of a field ("" for text, false, 0) all become '', every other value is kept
hasBlogChanged(existing, incoming) ==
    \E field \in fieldsToCompare :
        IF field = "tags"
        THEN JoinTags(existing.tags) # JoinTags(incoming.tags)
        ELSE existing[field] # incoming[field]

\* existingBlogMap.get(blogId): a later row with the same id replaces an earlier one
LastWithId(existingBlogs, blogId) ==
    CHOOSE i \in DOMAIN existingBlogs :
        /\ String(existingBlogs[i].id) = blogId
        /\ \A j \in DOMAIN existingBlogs :
              String(existingBlogs[j].id) = blogId => j <= i

existingIds(existingBlogs) == {String(existingBlogs[i].id) : i \in DOMAIN existingBlogs}

\* a row number that forgets the header row
sheetRowNoHeader(index) == index + 1

\* rowIndex: index + 2, the sheet row of the record at a 0-based index of the read
sheetRow(index) == index + 2

\* the blogs.forEach of writeBlogToSheet: the records to update, with their rows
RECURSIVE updatedBlogs(_, _, _)
updatedBlogs(existingBlogs, blogs, t) ==
    IF Len(blogs) = 0 THEN <<>>
    ELSE LET blog   == Head(blogs)
             blogId == String(blog.id)
             rest   == updatedBlogs(existingBlogs, Tail(blogs), t)
         IN  IF blogId \in existingIds(existingBlogs)
             THEN LET i == LastWithId(existingBlogs, blogId)
                  IN  IF hasBlogChanged(existingBlogs[i], blog)
                      THEN <<[blog     |-> [blog EXCEPT !.updatedAt = t],
                              rowIndex |-> sheetRow(i - 1)]>> \o rest
                      ELSE rest
             ELSE rest

\* the blogs.forEach of writeBlogToSheet: the records to append
RECURSIVE newBlogs(_, _, _)
newBlogs(existingBlogs, blogs, t) ==
    IF Len(blogs) = 0 THEN <<>>
    ELSE LET blog == Head(blogs)
             rest == newBlogs(existingBlogs, Tail(blogs), t)
         IN  IF String(blog.id) \in existingIds(existingBlogs)
             THEN rest
             ELSE <<[blog EXCEPT !.createdAt = OrNum(blog.createdAt, t),
                                 !.updatedAt = t]>> \o rest


\* --------------------------------------------------- blog route (POST, DELETE)
\* idToRowIndex.get(key): rows with a blank id cell are skipped, a later row
\* with the same id text replaces an earlier one; 0 when the key is absent
idToRowIndex(existingRows, key) ==
    LET hits == {i \in DOMAIN existingRows :
                    existingRows[i][1] # "" /\ existingRows[i][1] = key}
    IN  IF hits = {} THEN 0
        ELSE (CHOOSE i \in hits : \A j \in hits : j <= i) - 1 + 2

\* the values array POST builds for one blog of the body (id 0: no id given)
PostValues(blog, t) ==
    <<IF blog.id = 0 THEN "" ELSE String(blog.id),
      OrStr(blog.title, ""), OrStr(blog.excerpt, ""), OrStr(blog.content, ""),
      OrStr(blog.blogURL, ""), OrStr(blog.authorName, ""), OrStr(blog.authorBio, ""),
      OrStr(blog.authorAvatar, ""), JoinTags(blog.tags), OrStr(blog.image, ""),
      OrStr(blog.readTime, ""), IF blog.featured THEN "true" ELSE "false",
      OrStr(blog.status, "draft"), OrStr(blog.category, ""),
      OrNum(blog.date, DateOf(t)), OrNum(blog.createdAt, t), t>>

\* idToRowIndex.get(blog.id?.toString())
PostRowIndex(existingRows, blog) ==
    IF blog.id = 0 THEN 0 ELSE idToRowIndex(existingRows, String(blog.id))

RECURSIVE PostUpdates(_, _, _)
PostUpdates(existingRows, blogs, t) ==
    IF Len(blogs) = 0 THEN <<>>
    ELSE LET rowIndex == PostRowIndex(existingRows, Head(blogs))
             rest     == PostUpdates(existingRows, Tail(blogs), t)
         IN  IF rowIndex # 0
             THEN <<[rowIndex |-> rowIndex, values |-> PostValues(Head(blogs), t)]>> \o rest
             ELSE rest

RECURSIVE PostAppends(_, _, _)
PostAppends(existingRows, blogs, t) ==
    IF Len(blogs) = 0 THEN <<>>
    ELSE LET rest == PostAppends(existingRows, Tail(blogs), t)
         IN  IF PostRowIndex(existingRows, Head(blogs)) # 0
             THEN rest
             ELSE <<PostValues(Head(blogs), t)>> \o rest

\* the forEach of deleteBlogFromSheet: the last row with Number(row[0]) === blogId
\* (sheet row number, -1 when none)
RowToDelete(existingRows, blogId) ==
    LET hits == {i \in DOMAIN existingRows : Number(existingRows[i][1]) = blogId}
    IN  IF hits = {} THEN -1
        ELSE (CHOOSE i \in hits : \A j \in hits : j <= i) - 1 + 2

\* the forEach of the DELETE route: the last row with row[0] === blogId
RouteRowToDelete(existingRows, blogId) ==
    LET hits == {i \in DOMAIN existingRows : existingRows[i][1] = blogId}
    IN  IF hits = {} THEN -1
        ELSE (CHOOSE i \in hits : \A j \in hits : j <= i) - 1 + 2

\* ------------------------------------------------------------ drive records
\* Drive cells are all text.  Date.now() at clock value t is 1000 + t and
\* toISOString() at t is IsoStr[t].
EpochStr == <<"1001", "1002", "1003", "1004", "1005", "1006", "1007", "1008",
              "1009", "1010", "1011", "1012">>
IsoStr == <<"T01", "T02", "T03", "T04", "T05", "T06", "T07", "T08", "T09", "T10",
            "T11", "T12">>

DateNow(t) == 1000 + t

\* n.toString() for the numbers a drive can hold
NumText(n) == IF n > 1000 THEN EpochStr[n - 1000] ELSE String(n)

\* parseInt(value): the value of the leading decimal digits, NaN without any
parseInt(value) ==
    IF \E n \in DOMAIN DigitStr : DigitStr[n] = value
    THEN CHOOSE n \in DOMAIN DigitStr : DigitStr[n] = value
    ELSE IF \E t \in DOMAIN EpochStr : EpochStr[t] = value
    THEN 1000 + (CHOOSE t \in DOMAIN EpochStr : EpochStr[t] = value)
    ELSE IF value = "0" THEN 0
    ELSE IF value = "7x" THEN 7
    ELSE NaN

\* the column order of the drives tab (A:R), one column per DriveData field
DRIVE_SHEET_HEADERS ==
    <<"id", "title", "location", "date", "participants", "treesTarget", "status",
      "registrationOpen", "description", "organizer", "contactEmail",
      "registrationDeadline", "meetingPoint", "duration", "difficulty", "logo",
      "createdAt", "updatedAt">>

\* the switch of getAllDrives: the typed value of one cell under one header
DriveField(header, value, t) ==
    CASE header \in {"participants", "treesTarget"} ->
            IF value # "" THEN parseInt(value) ELSE 0
      [] header = "registrationOpen" -> (value = "true")
      [] header = "id" -> IF value # "" THEN parseInt(value) ELSE DateNow(t)
      [] OTHER -> value

\* headers.forEach((header, index) => drive[header] = ...): the object has one
\* key per distinct header cell, a later column replacing an earlier one
DriveOfRow(headers, row, t) ==
    [h \in {headers[i] : i \in DOMAIN headers} |->
        LET i == CHOOSE j \in DOMAIN headers :
                    headers[j] = h /\ \A k \in DOMAIN headers : headers[k] = h => k <= j
        IN  DriveField(h, row[i], t)]

\* getAllDrives on the rows of A:R at clock t
getAllDrives(rows, t) ==
    IF Len(rows) <= 1 THEN <<>>
    ELSE [i \in 1..(Len(rows) - 1) |-> DriveOfRow(rows[1], rows[i + 1], t)]

\* value.toString() of a typed drive value
DriveText(header, value) ==
    CASE header \in {"participants", "treesTarget", "id"} -> NumText(value)
      [] header = "registrationOpen" -> IF value THEN "true" ELSE "false"
      [] OTHER -> value

\* drive.id?.toString(), "undefined" when the object has no id
DriveIdText(drive) ==
    IF "id" \in DOMAIN drive THEN NumText(drive["id"]) ELSE "undefined"

\* allDrives.findIndex(drive => drive.id?.toString() === id.toString()),
\* 0-based, -1 when there is none
findIndex(allDrives, id) ==
    LET hits == {i \in DOMAIN allDrives : DriveIdText(allDrives[i]) = id}
    IN  IF hits = {} THEN -1
        ELSE (CHOOSE i \in hits : \A j \in hits : i <= j) - 1

\* validateDriveSheetData: the presence checks on the required fields
validateDriveSheetData(driveData) ==
    \A f \in {"title", "location", "date", "organizer", "contactEmail"} : driveData[f] # ""

\* the row addDrive appends: ids and timestamps assigned, defaults filled in,
\* every value turned to text ("" in driveData is an absent field)
AddDriveRow(driveData, t) ==
    [i \in DOMAIN DRIVE_SHEET_HEADERS |->
        LET h == DRIVE_SHEET_HEADERS[i]
        IN  CASE h = "id" -> OrStr(driveData.id, NumText(DateNow(t)))
              [] h \in {"createdAt", "updatedAt"} -> IsoStr[t]
              [] h \in {"participants", "treesTarget"} ->
                    IF driveData[h] = "" THEN "0" ELSE driveData[h]
              [] h = "status" -> OrStr(driveData.status, "upcoming")
              [] h = "registrationOpen" -> OrStr(driveData.registrationOpen, "true")
              [] h = "difficulty" -> OrStr(driveData.difficulty, "Easy")
              [] OTHER -> driveData[h]]

\* the row updateDrive writes: the stored object overlaid by the given fields
\* ("" in driveData is an absent field), updatedAt refreshed, every value
\* turned to text and '' for a field the object lacks; updateDrive passes the
\* id only to validateDriveSheetData, not into the overlay
UpdateDriveRow(stored, driveData, t) ==
    [i \in DOMAIN DRIVE_SHEET_HEADERS |->
        LET h == DRIVE_SHEET_HEADERS[i]
        IN  IF h = "updatedAt" THEN IsoStr[t]
            ELSE IF driveData[h] # "" THEN driveData[h]
            ELSE IF h \in DOMAIN stored THEN DriveText(h, stored[h])
            ELSE ""]

\* ------------------------------------------------------------ the sheet API
\* values.update on one whole row, A{rowIndex}:Q{rowIndex} of the blog tab or
\* A{rowIndex}:R{rowIndex} of the drives tab: the row is replaced; `rows` starts
\* at sheet row `first`.  (A row below the last one is written where the
\* sequence ends: no call of the model addresses a row further down.)
ValuesUpdate(rows, first, rowIndex, values) ==
    IF rowIndex - first + 1 \in DOMAIN rows
    THEN [rows EXCEPT ![rowIndex - first + 1] = values]
    ELSE rows \o <<values>>

\* values.append with INSERT_ROWS: the rows go after the last row of the table
ValuesAppend(rows, newRows) == rows \o newRows

RemoveAt(rows, pos) ==
    IF pos \in DOMAIN rows
    THEN SubSeq(rows, 1, pos - 1) \o SubSeq(rows, pos + 1, Len(rows))
    ELSE rows

\* batchUpdate deleteDimension {sheetId: 0, startIndex, endIndex: startIndex + 1}
\* on the rows of tab `tab`, whose first stored row is sheet row `first`
DeleteDimension(tab, rows, first, startIndex) ==
    IF sheet0 = tab THEN RemoveAt(rows, startIndex + 1 - (first - 1)) ELSE rows


\* ------------------------------------------------------------------ clients
Clients == {1, 2}

NoResult ==
    [kind |-> "none", success |-> FALSE, updated |-> 0, added |-> 0,
     id |-> 0, message |-> "", status |-> 0]

\* a client with no call in flight
Idle ==
    [op      |-> "none",   \* the function or handler called
     pc      |-> "idle",   \* the await it is at
     blogs   |-> <<>>,     \* argument: the batch
     blogId  |-> 0,        \* argument: deleteBlogFromSheet's id
     idParam |-> "",       \* argument: an id given as text
     updates |-> <<>>,     \* local: row updates to issue, [rowIndex, values]
     appends |-> <<>>,     \* local: rows to append
     row     |-> 0,        \* local: rowToDelete / rowNumber
     newId   |-> 0,        \* local: addSingleBlog's newId
     drive   |-> <<>>,     \* argument: addDrive's and updateDrive's driveData
     seen    |-> <<>>,     \* the rows its last read returned
     readAt  |-> 0,        \* when its last read was answered
     pre     |-> <<>>,     \* the tabs when the call started
     before  |-> <<>>,     \* the tabs before the successful call that this
                           \* call directly follows and depends on
     log     |-> <<>>,     \* the mutating requests it issued, in order
     bad     |-> "",       \* argument: the malformed body or query of a request
     failed  |-> FALSE,    \* a sheet call it awaited was rejected
     result  |-> NoResult]

Tabs == [blog |-> blogRows, drives |-> driveRows, other |-> otherRows, sheets |-> sheets]

Response(code, msg) == [NoResult EXCEPT !.kind = "response", !.status = code, !.message = msg]
Thrown(msg) == [NoResult EXCEPT !.kind = "throw", !.message = msg]

\* what the call hands back once its last request has succeeded
Outcome(s) ==
    CASE s.op = "writeBlogToSheet" ->
            [NoResult EXCEPT !.kind = "return", !.success = TRUE,
                             !.updated = Len(s.updates), !.added = Len(s.appends)]
      [] s.op = "addSingleBlog" ->
            [NoResult EXCEPT !.kind = "return", !.success = TRUE, !.id = s.newId]
      [] s.op = "POST" ->
            [NoResult EXCEPT !.kind = "response", !.status = 200, !.success = TRUE,
                             !.updated = Len(s.updates), !.added = Len(s.appends),
                             !.message = "Blog data saved successfully"]
      [] s.op = "DELETE" ->
            [NoResult EXCEPT !.kind = "response", !.status = 200, !.success = TRUE,
                             !.message = "Blog deleted successfully"]
      [] OTHER ->
            [NoResult EXCEPT !.kind = "return", !.success = TRUE]

\* what the call hands back when a sheet request fails: the helpers let the
\* error propagate, the route handlers catch it and answer 500
Failure(s) ==
    CASE s.op = "POST" -> Response(500, "Failed to save blog data")
      [] s.op = "DELETE" -> Response(500, "Failed to delete blog")
      [] s.op = "GET" -> Response(500, "Failed to fetch blog data")
      [] s.op = "adminsPOST" -> Response(500, "Failed to update admin data")
      [] OTHER -> Thrown("upstream")

\* where a call goes after its plan is made or a request has succeeded
AfterWrites(s) ==
    IF Len(s.log) < Len(s.updates) THEN [s EXCEPT !.pc = "update"]
    ELSE IF Len(s.appends) > 0 /\ Len(s.log) = Len(s.updates) THEN [s EXCEPT !.pc = "append"]
    ELSE [s EXCEPT !.pc = "done", !.result = Outcome(s)]

Request(kind, rowIndex, values, ok) ==
    [req |-> kind, rowIndex |-> rowIndex, values |-> values, ok |-> ok, at |-> now + 1]

\* ------------------------------------------------------------ inputs
Titles == {"A", "a", "B"}
TagLists == {<<>>, << <<"t">> >>}
InputIds == {1, 2}

FreshBlog(id, title, tags) ==
    [id |-> id, title |-> title, excerpt |-> "x", content |-> "x", blogURL |-> "u",
     authorName |-> "n", authorBio |-> "", authorAvatar |-> "", tags |-> tags,
     image |-> "", readTime |-> "", featured |-> FALSE, status |-> "published",
     category |-> "c", date |-> 1, createdAt |-> 0, updatedAt |-> 0]

\* the records a client got from an earlier read
ReadBlogs == LET read == readBlogFromSheet(blogRows, now) IN {read[i] : i \in DOMAIN read}

Retitled(blog) == [blog EXCEPT !.title = IF @ = "B" THEN "A" ELSE "B"]
Retagged(blog) == [blog EXCEPT !.tags = IF @ = <<>> THEN << <<"t">> >> ELSE <<>>]

\* a record made up by the caller, or one read earlier and sent back as it is,
\* with another title or with other tags
BlogInputs ==
    {FreshBlog(1, "A", <<>>), FreshBlog(1, "B", <<>>), FreshBlog(2, "B", <<>>)}
      \cup ReadBlogs
      \cup {Retitled(b) : b \in ReadBlogs}
      \cup {Retagged(b) : b \in ReadBlogs}

\* the batches: one record; a read record, as it is or retitled, with a new
\* one; two retitled records; the same new record twice
Batches(S) ==
    {<<a>> : a \in S}
      \cup {<<a, FreshBlog(2, "B", <<>>)>> : a \in ReadBlogs \cup {Retitled(b) : b \in ReadBlogs}}
      \cup {<<Retitled(a), Retitled(b)>> : a \in ReadBlogs, b \in ReadBlogs}
      \cup {<<FreshBlog(2, "B", <<>>), FreshBlog(2, "B", <<>>)>>}

\* batches of records the sheet has never held
NewBatches ==
    {<<FreshBlog(1, "A", <<>>)>>, <<FreshBlog(2, "B", <<>>)>>,
     <<FreshBlog(2, "B", <<>>), FreshBlog(2, "B", <<>>)>>}

\* ------------------------------------------------------------ blog helpers
Budget == now < MaxTime

\* client c can start a call: it has none in flight
CanCall(c) == st[c].pc \in {"idle", "done"} /\ Budget

\* the locals of a call whose first read is answered at now + 1
FirstRead(call) == [call EXCEPT !.pre = Tabs, !.seen = blogRows, !.readAt = now + 1]

\* a title check that compares the titles as they are
existingBlogExact(existingBlogs, blog) ==
    \E i \in DOMAIN existingBlogs : existingBlogs[i].title = blog.title

\* existingBlogs.find(b => b.title.toLowerCase() === blog.title.toLowerCase())
existingBlog(existingBlogs, blog) ==
    \E i \in DOMAIN existingBlogs :
        toLowerCase(existingBlogs[i].title) = toLowerCase(blog.title)

\* the largest id read, not one more
newIdMax(existingBlogs) ==
    IF Len(existingBlogs) > 0
    THEN MathMax([i \in DOMAIN existingBlogs |-> existingBlogs[i].id])
    ELSE 1

\* an id taken from the clock instead of from the ids read
newIdFromClock(existingBlogs) == now + 1

\* existingBlogs.length > 0 ? Math.max(...existingBlogs.map(b => b.id)) + 1 : 1
newId(existingBlogs) ==
    IF Len(existingBlogs) > 0
    THEN MathMax([i \in DOMAIN existingBlogs |-> existingBlogs[i].id]) + 1
    ELSE 1

\* addSingleBlog up to its call of writeBlogToSheet: the sheet read, the id
\* chosen, the title checked
AddSingleBlogChecked(s, t) ==
    LET existingBlogs == readBlogFromSheet(s.seen, t)
        blog == s.blogs[1]
    IN  IF existingBlog(existingBlogs, blog)
        THEN [s EXCEPT !.pc = "done",
                       !.result = [NoResult EXCEPT !.kind = "return",
                            !.message = "A blog with this title already exists"]]
        ELSE [s EXCEPT !.pc = "read",
                       !.newId = newId(existingBlogs),
                       !.blogs = <<[blog EXCEPT !.id = newId(existingBlogs),
                                                !.createdAt = t, !.updatedAt = t]>>]

\* writeBlogToSheet up to its first write: the sheet read, the batch split
WriteBlogPlanned(s, t) ==
    LET existingBlogs == readBlogFromSheet(s.seen, t)
        upd == updatedBlogs(existingBlogs, s.blogs, t)
        new == newBlogs(existingBlogs, s.blogs, t)
    IN  AfterWrites([s EXCEPT
            !.updates = [i \in DOMAIN upd |->
                           [rowIndex |-> upd[i].rowIndex, values |-> RowValues(upd[i].blog)]],
            !.appends = [i \in DOMAIN new |-> RowValues(new[i])]])

\* deleteBlogFromSheet up to its delete request
DeleteBlogLookedUp(s) ==
    LET rowToDelete == RowToDelete(s.seen, s.blogId)
    IN  IF rowToDelete = -1
        THEN [s EXCEPT !.pc = "done", !.row = rowToDelete, !.result = Thrown("Blog not found")]
        ELSE [s EXCEPT !.pc = "delete", !.row = rowToDelete]

\* POST up to its first write
PostPlanned(s, t) ==
    AfterWrites([s EXCEPT !.updates = PostUpdates(s.seen, s.blogs, t),
                          !.appends = PostAppends(s.seen, s.blogs, t)])

\* DELETE up to its delete request
DeleteRouteLookedUp(s) ==
    LET rowToDelete == RouteRowToDelete(s.seen, s.idParam)
    IN  IF rowToDelete = -1
        THEN [s EXCEPT !.pc = "done", !.row = rowToDelete,
                       !.result = Response(404, "Blog not found")]
        ELSE [s EXCEPT !.pc = "delete", !.row = rowToDelete]

\* a call is made and runs to the answer of its first sheet request
Enter(c, s) ==
    /\ CanCall(c)
    /\ now' = now + 1
    /\ st' = [st EXCEPT ![c] = s]
    /\ UNCHANGED <<blogRows, driveRows, otherRows, sheet0, sheets, banner>>

\* a call is made and answered without any sheet request
Refuse(c, s) ==
    /\ CanCall(c)
    /\ st' = [st EXCEPT ![c] = [s EXCEPT !.pre = Tabs]]
    /\ UNCHANGED <<blogRows, driveRows, otherRows, sheet0, sheets, now, banner>>

\* addSingleBlog(blog), to the answer of its own read
addSingleBlog(c) ==
    /\ Len(blogRows) <= MaxRows
    /\ \E title \in Titles :
          LET s == FirstRead([Idle EXCEPT !.op = "addSingleBlog", !.pc = "check",
                                          !.blogs = <<FreshBlog(0, title, <<>>)>>])
          IN  Enter(c, AddSingleBlogChecked(s, now + 1))

\* writeBlogToSheet(blogs) for one of `batches`, to the answer of its read
writeBlogToSheet(c, batches) ==
    /\ Len(blogRows) <= MaxRows
    /\ \E blogs \in batches :
          LET s == FirstRead([Idle EXCEPT !.op = "writeBlogToSheet", !.pc = "read",
                                          !.blogs = blogs])
          IN  Enter(c, WriteBlogPlanned(s, now + 1))

\* the writeBlogToSheet(newBlog) that addSingleBlog calls, to the answer of its read
AddSingleBlogWrite(c) ==
    /\ st[c].op = "addSingleBlog" /\ st[c].pc = "read" /\ Budget
    /\ now' = now + 1
    /\ st' = [st EXCEPT ![c] =
             WriteBlogPlanned([st[c] EXCEPT !.seen = blogRows, !.readAt = now + 1], now + 1)]
    /\ UNCHANGED <<blogRows, driveRows, otherRows, sheet0, sheets, banner>>

\* deleteBlogFromSheet(blogId), to the answer of its read
deleteBlogFromSheet(c) ==
    \E blogId \in {0} \cup InputIds :
        LET s == FirstRead([Idle EXCEPT !.op = "deleteBlogFromSheet", !.pc = "read",
                                        !.blogId = blogId])
        IN  Enter(c, DeleteBlogLookedUp(s))

\* ------------------------------------------------------------ blog routes
\* POST /api/blog with a body whose blogs is one of `batches`, to the answer
\* of its read
POST(c, batches) ==
    /\ Len(blogRows) <= MaxRows
    /\ \E blogs \in batches :
          LET s == FirstRead([Idle EXCEPT !.op = "POST", !.pc = "read", !.blogs = blogs])
          IN  Enter(c, PostPlanned(s, now + 1))

\* request bodies without an array: an object, JSON null, text that is not JSON
BadBodies == {"{}", "null", "not json"}

\* POST up to its validation: request.json() rejects text that is not JSON and
\* the destructuring of null throws, both inside the try; any other body
\* without an array blogs is answered 400
PostRefused(body) ==
    IF body \in {"null", "not json"}
    THEN Response(500, "Failed to save blog data")
    ELSE Response(400, "Invalid blog data")

\* POST /api/blog with a body that has no array blogs
PostInvalid(c) ==
    \E body \in BadBodies \cup {"{blogs: 1}"} :
        Refuse(c, [Idle EXCEPT !.op = "POST", !.pc = "done", !.bad = body,
                               !.result = PostRefused(body)])

\* GET /api/blog: the read is answered
GET(c) ==
    LET s == FirstRead([Idle EXCEPT !.op = "GET", !.pc = "done"])
    IN  Enter(c, [s EXCEPT !.result = [NoResult EXCEPT !.kind = "response", !.status = 200,
                                                         !.success = TRUE]])

\* DELETE /api/blog?id=blogId, to the answer of its read
DELETE(c) ==
    \E blogId \in {"0"} \cup {String(i) : i \in InputIds} :
        LET s == FirstRead([Idle EXCEPT !.op = "DELETE", !.pc = "read",
                                        !.idParam = blogId])
        IN  Enter(c, DeleteRouteLookedUp(s))

\* DELETE /api/blog without an id
DeleteInvalid(c) ==
    \E query \in {"", "id="} :
        Refuse(c, [Idle EXCEPT !.op = "DELETE", !.pc = "done", !.bad = "?" \o query,
                               !.result = Response(400, "Blog ID is required")])

\* ------------------------------------------------------------ drive helpers
DriveInput(id, title) ==
    [id |-> id, title |-> title, location |-> "L", date |-> "D", participants |-> "",
     treesTarget |-> "", status |-> "", registrationOpen |-> "", description |-> "",
     organizer |-> "O", contactEmail |-> "E", registrationDeadline |-> "",
     meetingPoint |-> "", duration |-> "", difficulty |-> "", logo |-> "",
     createdAt |-> "", updatedAt |-> ""]

\* the ids a caller may ask for: two it made up and those in the sheet's id column
DriveIdInputs ==
    ({"1", "7"} \cup {driveRows[i][1] : i \in DOMAIN driveRows}) \ {"", "id"}

FirstDriveRead(call) == [call EXCEPT !.pre = Tabs, !.seen = driveRows, !.readAt = now + 1]

\* addDrive(driveData) with the required fields: the row is appended
addDrive(c, ids) ==
    /\ CanCall(c)
    /\ Len(driveRows) <= MaxRows
    /\ \E id \in ids :
          LET driveData == DriveInput(id, "T")
              rowData   == AddDriveRow(driveData, now + 1)
              s == [Idle EXCEPT !.op = "addDrive", !.drive = driveData, !.pre = Tabs,
                                !.appends = <<rowData>>,
                                !.log = <<Request("append", 0, <<rowData>>, TRUE)>>]
          IN  /\ validateDriveSheetData(driveData)
              /\ driveRows' = ValuesAppend(driveRows, <<rowData>>)
              /\ st' = [st EXCEPT ![c] = [s EXCEPT !.pc = "done", !.result = Outcome(s)]]
    /\ now' = now + 1
    /\ UNCHANGED <<blogRows, otherRows, sheet0, sheets, banner>>

\* addDrive or updateDrive with a required field missing: validateDriveSheetData throws
DriveInvalid(c) ==
    \E op \in {"addDrive", "updateDrive"} :
        LET driveData == DriveInput("", "") IN
        /\ ~validateDriveSheetData(driveData)
        /\ Refuse(c, [Idle EXCEPT !.op = op, !.pc = "done", !.drive = driveData,
                                  !.result = Thrown("validation")])

\* updateDrive up to its update request
UpdateDrivePlanned(s, t) ==
    LET allDrives  == getAllDrives(s.seen, t)
        driveIndex == findIndex(allDrives, s.idParam)
    IN  IF driveIndex = -1
        THEN [s EXCEPT !.pc = "done", !.row = driveIndex, !.result = Thrown("Drive not found")]
        ELSE [s EXCEPT !.pc = "update", !.row = driveIndex + 2,
                       !.updates = <<[rowIndex |-> driveIndex + 2,
                                      values   |-> UpdateDriveRow(allDrives[driveIndex + 1],
                                                                  s.drive, t)]>>]

\* updateDrive(id, driveData), to the answer of its read
updateDrive(c, titles) ==
    \E id \in DriveIdInputs, title \in titles :
        LET driveData == DriveInput("", title)
            s == FirstDriveRead([Idle EXCEPT !.op = "updateDrive", !.pc = "read",
                                             !.idParam = id, !.drive = driveData])
        IN  /\ validateDriveSheetData(driveData)
            /\ Enter(c, UpdateDrivePlanned(s, now + 1))

\* deleteDrive up to its delete request
DeleteDriveLookedUp(s, t) ==
    LET allDrives  == getAllDrives(s.seen, t)
        driveIndex == findIndex(allDrives, s.idParam)
    IN  IF driveIndex = -1
        THEN [s EXCEPT !.pc = "done", !.row = driveIndex, !.result = Thrown("Drive not found")]
        ELSE [s EXCEPT !.pc = "delete", !.row = driveIndex + 2]

\* deleteDrive(id), to the answer of its read
deleteDrive(c) ==
    \E id \in DriveIdInputs :
        LET s == FirstDriveRead([Idle EXCEPT !.op = "deleteDrive", !.pc = "read",
                                             !.idParam = id])
        IN  Enter(c, DeleteDriveLookedUp(s, now + 1))

\* the call just before this one was a successful addDrive: the tabs as they
\* were before it
PriorAdd(c) ==
    IF st[c].op = "addDrive" /\ st[c].pc = "done" /\ st[c].result.success
    THEN st[c].pre ELSE <<>>

\* getDriveById(id): the first record of getAllDrives with that id, or null
getDriveById(c) ==
    \E id \in DriveIdInputs :
        LET s == FirstDriveRead([Idle EXCEPT !.op = "getDriveById", !.idParam = id,
                                             !.before = PriorAdd(c)])
            allDrives  == getAllDrives(driveRows, now + 1)
            driveIndex == findIndex(allDrives, id)
        IN  Enter(c, [s EXCEPT !.pc = "done", !.row = driveIndex,
                               !.result = IF driveIndex = -1
                                          THEN [NoResult EXCEPT !.kind = "return", !.message = "null"]
                                          ELSE Outcome(s)])

\* the name of the drives tab
DRIVE_SHEET_NAME == "drives"

\* a check of row 1 that never finds values
Row1EmptyAlways(rows) == TRUE

\* values.get on 1:1 answers no values: the tab has no row, or row 1 is blank
Row1Empty(rows) == rows = <<>> \/ \A i \in DOMAIN rows[1] : rows[1][i] = ""

\* the call just before this one was a successful initializeDriveSheet: the
\* tabs as they were before it
PriorInitialize(c) ==
    IF st[c].op = "initializeDriveSheet" /\ st[c].pc = "done" /\ st[c].result.success
    THEN st[c].pre ELSE <<>>

\* initializeDriveSheet(), to the answer of spreadsheets.get
initializeDriveSheet(c) ==
    LET s == [Idle EXCEPT !.op = "initializeDriveSheet", !.pre = Tabs, !.seen = sheets,
                          !.readAt = now + 1, !.before = PriorInitialize(c)]
        sheetExists == DRIVE_SHEET_NAME \in sheets
    IN  Enter(c, [s EXCEPT !.pc = IF sheetExists THEN "header" ELSE "addSheet"])

\* ------------------------------------------------------- requests in flight
\* the next values.update of the call is applied by the sheet
SheetUpdate(c) ==
    /\ st[c].pc = "update" /\ Budget
    /\ now' = now + 1
    /\ LET u == st[c].updates[Len(st[c].log) + 1]
       IN  /\ blogRows' = IF st[c].op = "updateDrive" THEN blogRows
                          ELSE ValuesUpdate(blogRows, 2, u.rowIndex, u.values)
           /\ driveRows' = IF st[c].op = "updateDrive"
                           THEN ValuesUpdate(driveRows, 1, u.rowIndex, u.values)
                           ELSE driveRows
           /\ st' = [st EXCEPT ![c] = AfterWrites(
                    [st[c] EXCEPT !.log = Append(@, Request("update", u.rowIndex, <<u.values>>, TRUE))])]
    /\ UNCHANGED <<otherRows, sheet0, sheets, banner>>

\* the values.append of the call is applied by the sheet
SheetAppend(c) ==
    /\ st[c].pc = "append" /\ Budget
    /\ now' = now + 1
    /\ blogRows' = ValuesAppend(blogRows, st[c].appends)
    /\ st' = [st EXCEPT ![c] = AfterWrites(
             [st[c] EXCEPT !.log = Append(@, Request("append", 0, st[c].appends, TRUE))])]
    /\ UNCHANGED <<driveRows, otherRows, sheet0, sheets, banner>>

\* the deleteDimension of the call is applied by the sheet
SheetDelete(c) ==
    /\ st[c].pc = "delete" /\ Budget
    /\ now' = now + 1
    /\ blogRows' = DeleteDimension("blog", blogRows, 2, st[c].row - 1)
    /\ driveRows' = DeleteDimension("drives", driveRows, 1, st[c].row - 1)
    /\ otherRows' = DeleteDimension("other", otherRows, 1, st[c].row - 1)
    /\ st' = [st EXCEPT ![c] = AfterWrites(
             [st[c] EXCEPT !.log = Append(@, Request("delete", st[c].row, <<>>, TRUE))])]
    /\ UNCHANGED <<sheet0, sheets, banner>>

\* a rejection that is swallowed: the call goes on with its next request
OnRejectedIgnored(s) == AfterWrites(s)

\* an awaited request rejects: the helpers have no try/catch around their
\* requests and the routes one around the whole handler, so the call ends there
OnRejected(s) == [s EXCEPT !.pc = "done", !.failed = TRUE, !.result = Failure(s)]

\* the request the call is waiting for fails: nothing is applied
RequestFails(c) ==
    /\ st[c].pc \in {"read", "update", "append", "delete", "header", "headerWrite"} /\ Budget
    /\ now' = now + 1
    /\ st' = [st EXCEPT ![c] =
             OnRejected([st[c] EXCEPT !.log =
                  IF st[c].pc \in {"read", "header"} THEN @
                  ELSE Append(@, Request(st[c].pc, 0, <<>>, FALSE))])]
    /\ UNCHANGED <<blogRows, driveRows, otherRows, sheet0, sheets, banner>>

\* the addSheet of initializeDriveSheet is applied: an empty tab is added, or
\* the request is rejected because a tab of that title is there by now
SheetAddSheet(c) ==
    /\ st[c].pc = "addSheet" /\ Budget
    /\ now' = now + 1
    /\ IF DRIVE_SHEET_NAME \in sheets
       THEN /\ st' = [st EXCEPT ![c] = OnRejected(
                     [st[c] EXCEPT !.log = Append(@, Request("addSheet", 0, <<>>, FALSE))])]
            /\ UNCHANGED <<sheets, driveRows>>
       ELSE /\ sheets' = sheets \cup {DRIVE_SHEET_NAME}
            /\ driveRows' = <<>>
            /\ st' = [st EXCEPT ![c] = [st[c] EXCEPT !.pc = "header",
                          !.log = Append(@, Request("addSheet", 0, <<>>, TRUE))]]
    /\ UNCHANGED <<blogRows, otherRows, sheet0, banner>>

\* the values.get on row 1 of initializeDriveSheet is answered
HeaderRead(c) ==
    /\ st[c].pc = "header" /\ Budget
    /\ now' = now + 1
    /\ LET s == [st[c] EXCEPT !.seen = IF Row1Empty(driveRows) THEN <<>> ELSE <<driveRows[1]>>,
                                !.readAt = now + 1]
       IN  st' = [st EXCEPT ![c] =
                 IF Row1Empty(driveRows)
                 THEN [s EXCEPT !.pc = "headerWrite",
                                !.updates = <<[rowIndex |-> 1, values |-> DRIVE_SHEET_HEADERS]>>]
                 ELSE [s EXCEPT !.pc = "done", !.result = Outcome(s)]]
    /\ UNCHANGED <<blogRows, driveRows, otherRows, sheet0, sheets, banner>>

\* the values.update on row 1 of initializeDriveSheet is applied
HeaderWrite(c) ==
    /\ st[c].pc = "headerWrite" /\ Budget
    /\ now' = now + 1
    /\ LET u == st[c].updates[1]
           s == [st[c] EXCEPT !.log = Append(@, Request("update", u.rowIndex, <<u.values>>, TRUE))]
       IN  /\ driveRows' = ValuesUpdate(driveRows, 1, u.rowIndex, u.values)
           /\ st' = [st EXCEPT ![c] = [s EXCEPT !.pc = "done", !.result = Outcome(s)]]
    /\ UNCHANGED <<blogRows, otherRows, sheet0, sheets, banner>>

\* a call of one of `ops` is made and its first read fails; its arguments
\* play no part
FirstReadFails(c, ops) ==
    \E op \in ops :
        Enter(c, [Idle EXCEPT !.op = op, !.pc = "done", !.pre = Tabs, !.failed = TRUE,
                              !.result = Failure([Idle EXCEPT !.op = op])])

\* ----------------------------------------------------------- admins routes
\* POST /api/admins up to its validation: req.json() rejects text that is not
\* JSON, a body that is not an array is answered 400
AdminsRefused(body) ==
    IF body = "not json"
    THEN Response(500, "Failed to update admin data")
    ELSE Response(400, "Request body must be an array of admin objects")

AdminsPostInvalid(c) ==
    \E body \in BadBodies :
        Refuse(c, [Idle EXCEPT !.op = "adminsPOST", !.pc = "done", !.bad = body,
                               !.result = AdminsRefused(body)])

\* writeAdminsToSheet(body): the admins tab is rewritten from the array
writeAdminsToSheet(rows, body) == body

\* POST /api/admins with an array: writeAdminsToSheet succeeds or rejects
AdminsPost(c) ==
    /\ CanCall(c)
    /\ \E body \in {<<"r1">>, <<"r1", "r4">>}, ok \in BOOLEAN :
          LET s == [Idle EXCEPT !.op = "adminsPOST", !.pc = "done", !.pre = Tabs,
                                !.log = <<Request("update", 1, body, ok)>>]
          IN  /\ otherRows' = IF ok THEN writeAdminsToSheet(otherRows, body) ELSE otherRows
              /\ st' = [st EXCEPT ![c] =
                          IF ok THEN [s EXCEPT !.result = [NoResult EXCEPT !.kind = "response",
                                                              !.status = 200, !.success = TRUE]]
                          ELSE OnRejected(s)]
    /\ now' = now + 1
    /\ UNCHANGED <<blogRows, driveRows, sheet0, sheets, banner>>

\* GET /api/admins: readAdminsFromSheet is awaited outside any try, so its
\* rejection leaves the handler as it is
AdminsGet(c) ==
    /\ CanCall(c)
    /\ \E ok \in BOOLEAN :
          LET s == [Idle EXCEPT !.op = "adminsGET", !.pc = "done", !.pre = Tabs,
                                !.seen = otherRows, !.readAt = now + 1]
          IN  st' = [st EXCEPT ![c] =
                       IF ok THEN [s EXCEPT !.result = [NoResult EXCEPT !.kind = "response",
                                                           !.status = 200, !.success = TRUE]]
                       ELSE OnRejected([s EXCEPT !.seen = <<>>, !.readAt = 0])]
    /\ now' = now + 1
    /\ UNCHANGED <<blogRows, driveRows, otherRows, sheet0, sheets, banner>>

\* ------------------------------------------------------------ RunningBanner
\* The component's state (currentDrives, currentIndex, isLoading), the
\* 'adminDataUpdate' listeners and the interval timers it has registered, each
\* with the values its closure captured, and localStorage.  A state change,
\* the render that follows it and the effects whose dependencies changed are
\* one step.  last records the step that was taken and what it started from.
BannerDrive(title, status, registrationOpen) ==
    [title |-> title, location |-> "L", date |-> "D", status |-> status,
     registrationOpen |-> registrationOpen]

DriveKinds ==
    {BannerDrive("a", "upcoming", TRUE), BannerDrive("a", "completed", TRUE),
     BannerDrive("a", "upcoming", FALSE), BannerDrive("", "upcoming", TRUE)}

\* the lists the admin panel can push
DriveLists == UNION {[1..n -> DriveKinds] : n \in 0..MaxDrives}

\* the lists it can store: for the stored list only the title makes a difference
StoredLists ==
    UNION {[1..n -> {BannerDrive("a", "upcoming", TRUE), BannerDrive("", "upcoming", TRUE)}] :
              n \in 0..MaxDrives}

\* localStorage.getItem("currentDrives"): absent, not a JSON array, or a list
Storages ==
    {[kind |-> "none", drives |-> <<>>], [kind |-> "corrupt", drives |-> <<>>]}
        \cup {[kind |-> "list", drives |-> l] : l \in StoredLists}

\* the fallback data of getCurrentDrives
Fallback == <<BannerDrive("N", "upcoming", TRUE)>>

StoredOk(drive) ==
    /\ drive.title # "" /\ drive.location # "" /\ drive.date # ""
    /\ drive.status = "upcoming" /\ drive.registrationOpen

getCurrentDrives(storage) ==
    IF storage.kind = "list" THEN SelectSeq(storage.drives, StoredOk) ELSE Fallback

PushedOk(drive) == drive.status = "upcoming" /\ drive.registrationOpen

\* handleUpdate that keeps the index whatever the new list is
handleUpdateNoReset(b, currentIndex, section, data) ==
    IF section = "currentDrives"
    THEN [b EXCEPT !.currentDrives = SelectSeq(data, PushedOk)]
    ELSE b

\* handleUpdate(event) of the listener whose closure holds currentIndex
handleUpdate(b, currentIndex, section, data) ==
    IF section = "currentDrives"
    THEN LET updatedDrives == SelectSeq(data, PushedOk)
         IN  [b EXCEPT !.currentDrives = updatedDrives,
                       !.currentIndex = IF currentIndex >= Len(updatedDrives) THEN 0 ELSE @]
    ELSE b

\* window.dispatchEvent: every registered listener handles the event
RECURSIVE DispatchEvent(_, _, _, _)
DispatchEvent(b, listeners, section, data) ==
    IF listeners = <<>> THEN b
    ELSE DispatchEvent(handleUpdate(b, Head(listeners), section, data),
                       Tail(listeners), section, data)

\* setCurrentIndex((prev) => (prev + 1) % currentDrives.length) of a timer
\* whose closure holds the length
OnInterval(b, length) == [b EXCEPT !.currentIndex = (@ + 1) % length]

\* removeEventListener / clearInterval of the registration made last
DropLast(regs) == IF regs = <<>> THEN regs ELSE SubSeq(regs, 1, Len(regs) - 1)

\* a cleanup that leaves the listener registered
ListenerCleanupMissing(b) == b

\* the cleanup the first effect returns: the listener it added is removed
ListenerCleanup(b) == [b EXCEPT !.listeners = DropLast(@)]

\* the first effect: loadData() sets the list from localStorage, and a
\* listener holding the index of this render is added
ListenerEffect(b) ==
    [b EXCEPT !.listeners = Append(@, b.currentIndex),
              !.currentDrives = getCurrentDrives(b.storage),
              !.isLoading = FALSE]

\* the cleanup the second effect returns when it set a timer, which it did
\* for a list of two or more: the timer is cleared
RotationCleanup(b, length) == IF length > 1 THEN [b EXCEPT !.timers = DropLast(@)] ELSE b

\* the second effect, run when currentDrives.length is not what it was at its
\* last run: the cleanup of that run, and a new timer for a list of two or more
RotationEffect(b, oldLength) ==
    IF Len(b.currentDrives) = oldLength THEN b
    ELSE LET cleaned == RotationCleanup(b, oldLength)
         IN  IF Len(b.currentDrives) > 1
             THEN [cleaned EXCEPT !.timers = Append(@, Len(b.currentDrives))]
             ELSE cleaned

\* the render reads currentDrives[currentIndex].date
RenderThrows(b) ==
    ~b.isLoading /\ Len(b.currentDrives) > 0 /\ b.currentIndex >= Len(b.currentDrives)

\* the component leaves the page: the cleanups of both effects run, the second
\* for the length it last ran with
Unmounted(b, length) ==
    [RotationCleanup(ListenerCleanup(b), length) EXCEPT !.mounted = FALSE]

\* a render throws: the component is taken off the page
Crashed(b, length) == [Unmounted(b, length) EXCEPT !.crashed = TRUE]

\* from the rendered state old to the state new set by a callback: the render,
\* the effects whose dependency changed, and the render and effect that
\* loadData's setCurrentDrives brings
Commit(old, new) ==
    IF RenderThrows(new) THEN Crashed(new, Len(old.currentDrives))
    ELSE LET first == RotationEffect(new, Len(old.currentDrives))
         IN  IF new.currentIndex = old.currentIndex THEN first
             ELSE LET loaded == ListenerEffect(ListenerCleanup(first))
                  IN  IF RenderThrows(loaded) THEN Crashed(loaded, Len(first.currentDrives))
                      ELSE RotationEffect(loaded, Len(first.currentDrives))

NoStep == [op |-> "none", index |-> 0, n |-> 0]

NoBanner ==
    [mounted |-> FALSE, crashed |-> FALSE, currentDrives |-> <<>>, currentIndex |-> 0,
     isLoading |-> TRUE, listeners |-> <<>>, timers |-> <<>>,
     storage |-> [kind |-> "none", drives |-> <<>>], last |-> NoStep]

Step(op, n) == [op |-> op, index |-> banner.currentIndex, n |-> n]

Frame == UNCHANGED <<blogRows, driveRows, otherRows, sheet0, sheets, now, st>>

\* the page with the banner is opened: first render with the initial state,
\* both effects run, and the loaded list is rendered
Mount ==
    /\ ~banner.mounted
    /\ LET initial == [banner EXCEPT !.mounted = TRUE, !.crashed = FALSE,
                                     !.currentDrives = <<>>, !.currentIndex = 0,
                                     !.isLoading = TRUE, !.last = NoStep]
       IN  banner' = RotationEffect(ListenerEffect(initial), 0)
    /\ Frame

Unmount ==
    /\ banner.mounted
    /\ banner' = [Unmounted(banner, Len(banner.currentDrives)) EXCEPT !.last = Step("unmount", 0)]
    /\ Frame

\* an interval timer fires
Tick ==
    /\ banner.mounted
    /\ \E k \in DOMAIN banner.timers :
          banner' = Commit(banner, [OnInterval(banner, banner.timers[k])
                                       EXCEPT !.last = Step("tick", Len(banner.currentDrives))])
    /\ Frame

\* the admin panel dispatches 'adminDataUpdate' with detail {section, data}
UpdateEvent ==
    /\ banner.mounted
    /\ \E section \in {"currentDrives", "blogs"}, data \in DriveLists :
          banner' = Commit(banner,
                           [DispatchEvent(banner, banner.listeners, section, data)
                               EXCEPT !.last = IF section = "currentDrives"
                                               THEN Step("event", Len(SelectSeq(data, PushedOk)))
                                               ELSE Step("other", 0)])
    /\ Frame

\* a progress indicator is clicked: setCurrentIndex(index)
Click ==
    /\ banner.mounted /\ ~banner.isLoading
    /\ Len(banner.currentDrives) > 1
    /\ \E index \in 0..(Len(banner.currentDrives) - 1) :
          /\ index # banner.currentIndex
          /\ banner' = Commit(banner, [banner EXCEPT !.currentIndex = index,
                                                     !.last = Step("click", index)])
    /\ Frame

\* the admin panel saves its drives, or the storage is cleared or spoilt
SetStorage ==
    /\ \E s \in Storages :
          /\ s # banner.storage
          /\ banner' = [banner EXCEPT !.storage = s]
    /\ Frame

\* ------------------------------------------------------------ specification

InitSheet ==
    /\ blogRows = <<>>
    /\ driveRows \in {<<>>, <<DRIVE_SHEET_HEADERS>>}
    /\ otherRows = <<"r1", "r2", "r3">>
    /\ sheets = {"blog", "drives", "other"}
    /\ now = 0
    /\ st = [c \in Clients |-> Idle]
    /\ banner = NoBanner

\* the banner on its page, the admin panel and the timers
InitBanner == InitSheet /\ sheet0 = "blog" /\ driveRows = <<>>

NextBanner == Mount \/ Unmount \/ Tick \/ UpdateEvent \/ Click \/ SetStorage

SpecBanner == InitBanner /\ [][NextBanner]_vars

\* upserts by one client, every call completing before the next starts
Init == InitSheet /\ sheet0 = "blog"

Next ==
    \/ addSingleBlog(1)
    \/ AddSingleBlogWrite(1)
    \/ writeBlogToSheet(1, Batches(BlogInputs))
    \/ POST(1, Batches(BlogInputs \cup {FreshBlog(0, "A", <<>>)}))
    \/ PostInvalid(1)
    \/ SheetUpdate(1)
    \/ SheetAppend(1)
    \/ RequestFails(1)
    \/ FirstReadFails(1, {"addSingleBlog", "writeBlogToSheet", "POST"})

Spec == Init /\ [][Next]_vars

\* every operation on the blog and drives tabs by one client, every call
\* completing before the next starts, on any assignment of sheetId 0 and with
\* or without the header row of the drives tab
InitCrud ==
    /\ InitSheet
    /\ sheet0 \in {"blog", "drives", "other"}

NextCrud ==
    \/ addSingleBlog(1)
    \/ AddSingleBlogWrite(1)
    \/ writeBlogToSheet(1, NewBatches)
    \/ POST(1, {<<FreshBlog(0, "A", <<>>)>>})
    \/ deleteBlogFromSheet(1)
    \/ DELETE(1)
    \/ DeleteInvalid(1)
    \/ addDrive(1, {"", "1", "7x"})
    \/ deleteDrive(1)
    \/ SheetUpdate(1)
    \/ SheetAppend(1)
    \/ SheetDelete(1)
    \/ RequestFails(1)
    \/ FirstReadFails(1, {"deleteBlogFromSheet", "DELETE", "deleteDrive"})

SpecCrud == InitCrud /\ [][NextCrud]_vars

\* two clients whose calls overlap: each sheet request is one step, and the
\* steps of the two calls interleave in any order
OneEdit == {<<FreshBlog(1, "A", <<>>)>>}
             \cup {<<Retitled(b)>> : b \in ReadBlogs}
             \cup {<<Retagged(Retitled(b))>> : b \in ReadBlogs}

\* the clients are interchangeable, so the one that starts a call while no
\* call is in flight is named 1, and 2 starts its calls during a call of 1
InFlight(c) == st[c].pc \notin {"idle", "done"}

MayStart(c) == c = 1 \/ InFlight(1)

StepConc(c) ==
    \/ MayStart(c) /\ addSingleBlog(c)
    \/ AddSingleBlogWrite(c)
    \/ MayStart(c) /\ writeBlogToSheet(c, OneEdit)
    \/ c = 1 /\ addDrive(c, {"1"})
    \/ MayStart(c) /\ updateDrive(c, {"U", "V"})
    \/ MayStart(c) /\ DriveInvalid(c)
    \/ SheetUpdate(c)
    \/ SheetAppend(c)

NextConc == \E c \in Clients : StepConc(c)

SpecConc == Init /\ [][NextConc]_vars

\* one client of the route handlers
NextRoute ==
    \/ GET(1)
    \/ POST(1, Batches(BlogInputs \cup {FreshBlog(0, "A", <<>>)}))
    \/ PostInvalid(1)
    \/ DELETE(1)
    \/ DeleteInvalid(1)
    \/ AdminsGet(1)
    \/ AdminsPost(1)
    \/ AdminsPostInvalid(1)
    \/ SheetUpdate(1)
    \/ SheetAppend(1)
    \/ SheetDelete(1)
    \/ RequestFails(1)
    \/ FirstReadFails(1, {"GET", "POST", "DELETE"})

SpecRoute == Init /\ [][NextRoute]_vars

\* the three blog helpers that write, called by one client one after the
\* other, from the empty blog tab
NextLib ==
    \/ addSingleBlog(1)
    \/ AddSingleBlogWrite(1)
    \/ writeBlogToSheet(1, Batches(BlogInputs))
    \/ deleteBlogFromSheet(1)
    \/ SheetUpdate(1)
    \/ SheetAppend(1)
    \/ SheetDelete(1)
    \/ RequestFails(1)

SpecLib == InitCrud /\ [][NextLib]_vars


\* every row of the blog tab read into its record and written back as that
\* record's row: readBlogFromSheet followed by the row writeBlogToSheet builds;
\* seen keeps the rows before the first pass, pre those before the last
TagCells == UNION {[1..n -> {"t", ",", " "}] : n \in 0..MaxLen}

\* rows as an editor of the spreadsheet can leave them
EditedRows ==
    {<<id, "A", "", "x", "", "n", "", "", tags, "", "", featured, status, "c", date, stamp, stamp>> :
        id \in {"", "0", "2", "x"}, tags \in TagCells, featured \in {"true", "TRUE"},
        status \in {"", "published"}, date \in {0, 1}, stamp \in {0, 1}}

InitRoundTrip ==
    /\ blogRows \in {<<r>> : r \in EditedRows} \cup {<<RowValues(FreshBlog(1, "B", <<>>)), r>> : r \in EditedRows}
    /\ driveRows = <<>>
    /\ otherRows = <<"r1", "r2", "r3">>
    /\ sheet0 = "blog"
    /\ sheets = {"blog", "drives", "other"}
    /\ now = 1
    /\ st = [c \in Clients |-> Idle]
    /\ banner = NoBanner

RoundTrip ==
    /\ Budget
    /\ Len(st[1].log) < 3
    /\ LET blogs == readBlogFromSheet(blogRows, now + 1)
           rows  == [i \in DOMAIN blogs |-> RowValues(blogs[i])]
       IN  /\ blogRows' = rows
           /\ st' = [st EXCEPT ![1] = [@ EXCEPT !.op = "roundTrip", !.pc = "done",
                                                !.seen = IF st[1].log = <<>> THEN blogRows ELSE @,
                                                !.readAt = now + 1, !.pre = Tabs,
                                                !.log = @ \o <<Request("update", 2, rows, TRUE)>>]]
    /\ now' = now + 1
    /\ UNCHANGED <<driveRows, otherRows, sheet0, sheets, banner>>

SpecRoundTrip == InitRoundTrip /\ [][RoundTrip]_vars

\* one caller of the drive helpers on a spreadsheet that may not have the
\* drives tab yet; addDrive, updateDrive and getDriveById are called once the
\* tab is there
InitDrives ==
    /\ blogRows = <<>>
    /\ otherRows = <<"r1", "r2", "r3">>
    /\ sheet0 = "blog"
    /\ \/ sheets = {"blog", "other"} /\ driveRows = <<>>
       \/ sheets = {"blog", "drives", "other"} /\ driveRows \in {<<>>, <<DRIVE_SHEET_HEADERS>>}
    /\ now = 0
    /\ st = [c \in Clients |-> Idle]
    /\ banner = NoBanner

NextDrives ==
    \/ initializeDriveSheet(1)
    \/ SheetAddSheet(1)
    \/ HeaderRead(1)
    \/ HeaderWrite(1)
    \/ RequestFails(1)
    \/ FirstReadFails(1, {"initializeDriveSheet", "updateDrive", "getDriveById"})
    \/ DRIVE_SHEET_NAME \in sheets /\ getDriveById(1)
    \/ DRIVE_SHEET_NAME \in sheets /\ addDrive(1, {"", "1", "7x"})
    \/ DRIVE_SHEET_NAME \in sheets /\ updateDrive(1, {"U"})
    \/ SheetUpdate(1)

SpecDrives == InitDrives /\ [][NextDrives]_vars

\* ------------------------------------------------------------------ claims
Upserts == {"writeBlogToSheet", "POST"}

\* the call of client c has ended and handed back success
Succeeded(c) == st[c].pc = "done" /\ st[c].result.success

\* the records the call of client c got from its last read
SeenBlogs(c) == readBlogFromSheet(st[c].seen, st[c].readAt)

Requests(c, kind) == {k \in DOMAIN st[c].log : st[c].log[k].req = kind}

\* C1: an upsert of one existing record with no changed field and one record
\* whose id is not in the sheet reports updated = 0 and added = 1, issues no
\* row update and exactly one append, which carries the new record
C1_Case(c, old, new) ==
    /\ st[c].op \in Upserts /\ Succeeded(c)
    /\ Len(st[c].blogs) = 2
    /\ {old, new} = {1, 2}
    /\ \E i \in DOMAIN SeenBlogs(c) : SeenBlogs(c)[i] = st[c].blogs[old]
    /\ \A i \in DOMAIN SeenBlogs(c) : SeenBlogs(c)[i].id # st[c].blogs[new].id

C1_UnmodifiedSkipped ==
    \A c \in Clients : \A old, new \in {1, 2} :
        C1_Case(c, old, new) =>
            /\ st[c].result.updated = 0
            /\ st[c].result.added = 1
            /\ Requests(c, "update") = {}
            /\ \E k \in DOMAIN st[c].log :
                  /\ Requests(c, "append") = {k}
                  /\ Len(st[c].log[k].values) = 1
                  /\ st[c].log[k].values[1][1] = String(st[c].blogs[new].id)
                  /\ st[c].log[k].values[1][2] = st[c].blogs[new].title

\* C2: a delete of an id that no row holds in its id cell ends not found
\* ('Blog not found' / 'Drive not found' thrown, 404 from the DELETE route),
\* issues no mutating request and leaves every tab as it was
C2_Case(c) ==
    /\ st[c].op \in {"deleteBlogFromSheet", "DELETE", "deleteDrive"}
    /\ st[c].readAt > 0
    /\ \A i \in DOMAIN st[c].seen :
          st[c].seen[i][1] #
              (IF st[c].op = "deleteBlogFromSheet" THEN String(st[c].blogId) ELSE st[c].idParam)

C2_NotFound(c) ==
    CASE st[c].op = "deleteBlogFromSheet" ->
            st[c].result.kind = "throw" /\ st[c].result.message = "Blog not found"
      [] st[c].op = "deleteDrive" ->
            st[c].result.kind = "throw" /\ st[c].result.message = "Drive not found"
      [] OTHER ->
            st[c].result.kind = "response" /\ st[c].result.status = 404

C2_UnknownIdNotFound ==
    \A c \in Clients :
        C2_Case(c) =>
            /\ st[c].pc = "done"
            /\ C2_NotFound(c)
            /\ st[c].log = <<>>
            /\ Tabs = st[c].pre

\* C3: addSingleBlog with a title that equals an existing title up to letter
\* case returns {success: false, message} and writes nothing
EqualIgnoringCase(x, y) == x = y \/ {x, y} = {"A", "a"} \/ {x, y} = {"B", "b"}

C3_Case(c) ==
    /\ st[c].op = "addSingleBlog" /\ st[c].readAt > 0
    /\ \E i \in DOMAIN st[c].pre.blog :
          EqualIgnoringCase(st[c].pre.blog[i][2], st[c].blogs[1].title)

C3_DuplicateTitleRefused ==
    \A c \in Clients :
        C3_Case(c) =>
            /\ st[c].pc = "done"
            /\ st[c].result.kind = "return"
            /\ ~st[c].result.success
            /\ st[c].result.message # ""
            /\ st[c].log = <<>>
            /\ blogRows = st[c].pre.blog

C3_Witness ==
    \E c \in Clients :
        /\ C3_Case(c) /\ st[c].pc = "done"
        /\ \A i \in DOMAIN st[c].pre.blog : st[c].pre.blog[i][2] # st[c].blogs[1].title

\* C4: an upsert of one record that carries the id of an existing record (the
\* only row with that id, which holds it in its id cell) and differs from it
\* only in the title issues exactly one row update, to that row, and no
\* append; the row's updatedAt changes and its createdAt does not
C4_Case(c, i) ==
    /\ st[c].op \in Upserts /\ Succeeded(c)
    /\ Len(st[c].blogs) = 1
    /\ i \in DOMAIN SeenBlogs(c)
    /\ st[c].seen[i][1] = String(st[c].blogs[1].id)
    /\ \A j \in DOMAIN SeenBlogs(c) : SeenBlogs(c)[j].id = st[c].blogs[1].id => j = i
    /\ st[c].blogs[1].title # SeenBlogs(c)[i].title
    /\ st[c].blogs[1] = [SeenBlogs(c)[i] EXCEPT !.title = st[c].blogs[1].title]

C4_WitnessRoute ==
    \E i \in DOMAIN st[1].seen : C4_Case(1, i) /\ st[1].op = "POST"

\* C9: when a write of an upsert fails the call fails, the row updates that
\* succeeded before it stay applied and no further write is issued
RECURSIVE Replay(_, _)
Replay(rows, log) ==
    IF Len(log) = 0 THEN rows
    ELSE IF Head(log).ok /\ Head(log).req = "update"
         THEN Replay([rows EXCEPT ![Head(log).rowIndex - 1] = Head(log).values[1]], Tail(log))
         ELSE Replay(rows, Tail(log))

C9_Case(c, k) ==
    /\ st[c].op \in Upserts \cup {"addSingleBlog"}
    /\ k \in DOMAIN st[c].log
    /\ ~st[c].log[k].ok

C9_FailedWriteKeepsEarlier ==
    \A c \in Clients : \A k \in DOMAIN st[c].log :
        C9_Case(c, k) =>
            /\ k = Len(st[c].log)
            /\ \A j \in 1..(k - 1) : st[c].log[j].ok /\ st[c].log[j].req = "update"
            /\ st[c].pc = "done"
            /\ ~st[c].result.success
            /\ st[c].result.kind = "throw" \/ st[c].result.status = 500
            /\ blogRows = Replay(st[c].pre.blog, st[c].log)

C9_Witness ==
    \E c \in Clients : \E k \in DOMAIN st[c].log :
        C9_Case(c, k) /\ k > 1 /\ blogRows # st[c].pre.blog


\* C5: after any sequence of addSingleBlog, writeBlogToSheet and
\* deleteBlogFromSheet calls, each completing before the next starts, the
\* records readBlogFromSheet returns have pairwise distinct ids
C5_IdsDistinct ==
    st[1].pc \in {"idle", "done"} =>
        LET blogs == readBlogFromSheet(blogRows, now)
        IN  \A i, j \in DOMAIN blogs : blogs[i].id = blogs[j].id => i = j

\* C6: a successful deleteBlogFromSheet or deleteDrive removes from the
\* entity's own tab exactly the row that holds the id; the other records stay,
\* in their order, and no other tab changes
C6_Case(c) == st[c].op \in {"deleteBlogFromSheet", "deleteDrive"} /\ Succeeded(c)

C6_DeleteRemovesTheRow ==
    \A c \in Clients :
        C6_Case(c) =>
            IF st[c].op = "deleteBlogFromSheet"
            THEN /\ blogRows = RemoveAt(st[c].pre.blog, st[c].row - 1)
                 /\ \A i \in DOMAIN blogRows : blogRows[i][1] # String(st[c].blogId)
                 /\ driveRows = st[c].pre.drives /\ otherRows = st[c].pre.other
            ELSE /\ driveRows = RemoveAt(st[c].pre.drives, st[c].row)
                 /\ \A i \in DOMAIN driveRows : driveRows[i][1] # st[c].idParam
                 /\ blogRows = st[c].pre.blog /\ otherRows = st[c].pre.other


\* C7: two overlapping addSingleBlog calls with different titles, each of
\* which got the answer of its last read before the other's append reached the
\* sheet, both return success with the same id, and two rows hold that id
AppendAt(c) == st[c].log[Len(st[c].log)].at

C7_Case ==
    /\ \A c \in Clients :
          st[c].op = "addSingleBlog" /\ Succeeded(c) /\ Len(st[c].log) = 1
    /\ st[1].blogs[1].title # st[2].blogs[1].title
    /\ st[1].readAt < AppendAt(2)
    /\ st[2].readAt < AppendAt(1)

C7_RacingAddsShareAnId ==
    C7_Case =>
        /\ st[1].result.id = st[2].result.id
        /\ st[1].result.id =
              (IF st[1].pre.blog = <<>> THEN 1
               ELSE MathMax([i \in DOMAIN st[1].pre.blog |-> Number(st[1].pre.blog[i][1])]) + 1)
        /\ Cardinality({i \in DOMAIN blogRows : blogRows[i][1] = String(st[1].result.id)}) = 2

C7_Witness == C7_Case /\ Len(blogRows) = 2 /\ blogRows[1][1] = blogRows[2][1]

\* the two calls overlap: each got its read answered before the other's
\* update reached the sheet, and each issued one row update
Overlap ==
    /\ \A c \in Clients : Succeeded(c) /\ Len(st[c].log) = 1 /\ st[c].log[1].req = "update"
    /\ st[1].readAt < AppendAt(2)
    /\ st[2].readAt < AppendAt(1)

\* the client whose request reached the sheet last
LastWriter == IF AppendAt(1) > AppendAt(2) THEN 1 ELSE 2

\* C8: two overlapping writeBlogToSheet calls that each change the same
\* existing record, the one row that holds its id, both report updated = 1,
\* each sends one update of that row, and the row ends equal in every cell to
\* the row of the request that reached the sheet last
C8_Case(i) ==
    /\ \A c \in Clients :
          /\ st[c].op = "writeBlogToSheet" /\ Len(st[c].blogs) = 1
          /\ {j \in DOMAIN st[c].seen : Number(st[c].seen[j][1]) = st[c].blogs[1].id} = {i}
    /\ st[1].blogs[1].id = st[2].blogs[1].id
    /\ Overlap

C8_LastWriteWins ==
    \A i \in DOMAIN blogRows :
        C8_Case(i) =>
            /\ \A c \in Clients : st[c].result.updated = 1 /\ st[c].log[1].rowIndex = i + 1
            /\ blogRows[i] = st[LastWriter].log[1].values[1]

C8_Witness ==
    \E i \in DOMAIN blogRows :
        /\ C8_Case(i)
        /\ st[1].log[1].values[1][9] # st[2].log[1].values[1][9]

\* the same for two overlapping updateDrive calls for the id of one row
UpdateDriveCase(i) ==
    /\ \A c \in Clients :
          /\ st[c].op = "updateDrive"
          /\ {j \in DOMAIN st[c].seen : j > 1 /\ st[c].seen[j][1] = st[c].idParam} = {i}
    /\ st[1].idParam = st[2].idParam
    /\ Overlap

UpdateDriveLastWriteWins ==
    \A i \in DOMAIN driveRows :
        UpdateDriveCase(i) =>
            /\ \A c \in Clients : st[c].log[1].rowIndex = i
            /\ driveRows[i] = st[LastWriter].log[1].values[1]

UpdateDriveRaced ==
    \E i \in DOMAIN driveRows :
        UpdateDriveCase(i) /\ st[1].log[1].values[1][2] # st[2].log[1].values[1][2]

\* C10: a timer tick on a list of 3 drives takes the index from i to
\* (i + 1) mod 3, and an update event for section 'currentDrives' whose
\* filtered list has no position for the current index sets the index to 0
C10_RotatesAndResets ==
    /\ (banner.last.op = "tick" /\ banner.last.n = 3) =>
           banner.currentIndex = (banner.last.index + 1) % 3
    /\ (banner.last.op = "event" /\ banner.last.index >= banner.last.n) =>
           banner.currentIndex = 0

C10_Witness ==
    /\ banner.last.op = "event" /\ banner.last.index = 2 /\ banner.last.n = 2
    /\ banner.currentIndex = 0

C10_WitnessTick ==
    banner.last.op = "tick" /\ banner.last.n = 3 /\ banner.last.index = 2 /\ banner.currentIndex = 0


\* C11: a blog row read and written back, and then read and written back
\* again, is after the second pass what it was after the first in every
\* column but createdAt and updatedAt, and no pass moves a timestamp backwards
NonTimestamp(row) == SubSeq(row, 1, 15)

C11_RoundTripIdempotent ==
    /\ Len(st[1].log) >= 2 =>
          \A i \in DOMAIN blogRows : NonTimestamp(blogRows[i]) = NonTimestamp(st[1].pre.blog[i])
    /\ Len(st[1].log) >= 1 =>
          \A i \in DOMAIN blogRows :
              blogRows[i][16] >= st[1].pre.blog[i][16] /\ blogRows[i][17] >= st[1].pre.blog[i][17]

C11_Witness ==
    /\ Len(st[1].log) = 2
    /\ \E i \in DOMAIN blogRows :
          /\ NonTimestamp(st[1].log[1].values[i]) # NonTimestamp(st[1].seen[i])
          /\ st[1].seen[i][9] = <<"t", ",", "t">>
          /\ blogRows[i][9] = <<"t", ",", " ", "t">>


\* the ids of the records a read of rows returns
IdsRead(rows) == {readBlogFromSheet(rows, 0)[i].id : i \in DOMAIN rows}

C12_Case(c) == st[c].op = "addSingleBlog" /\ Succeeded(c)

C12_NextId(c) ==
    /\ st[c].result.id = (IF st[c].pre.blog = <<>> THEN 1
                          ELSE MathMax([i \in DOMAIN st[c].pre.blog |->
                                           readBlogFromSheet(st[c].pre.blog, 0)[i].id]) + 1)
    /\ st[c].result.id \notin IdsRead(st[c].pre.blog) \cup IdsRead(st[c].seen)
    /\ Len(st[c].log) = 1
    /\ st[c].log[1].req = "append"
    /\ Len(st[c].log[1].values) = 1
    /\ st[c].log[1].values[1][1] = String(st[c].result.id)

\* C12 as stated: every successful addSingleBlog returns max existing id + 1
\* (1 on an empty sheet), an id that none of the records it read has, appends
\* exactly one row carrying it and writes no existing row
C12_AddAssignsNextId == \A c \in Clients : C12_Case(c) => C12_NextId(c)

\* C12 amended: the same for a successful addSingleBlog whose second read,
\* the one writeBlogToSheet makes, returned the rows its first read returned
C12_AddAssignsNextIdUnraced ==
    \A c \in Clients : (C12_Case(c) /\ st[c].seen = st[c].pre.blog) => C12_NextId(c)

C12_Witness ==
    \E c \in Clients :
        /\ C12_Case(c) /\ st[c].seen = st[c].pre.blog
        /\ st[c].pre.blog # <<>>
        /\ st[c].result.id = 2


RouteOps == {"GET", "POST", "DELETE", "adminsGET", "adminsPOST"}

\* C13: a POST /api/blog whose body has no array blogs, a DELETE /api/blog
\* without id and a POST /api/admins whose body is not an array are answered
\* with status 400, and no sheet request is made for them
C13_Case(c) == st[c].op \in RouteOps /\ st[c].pc = "done" /\ st[c].bad # ""

C13_MalformedIs400 ==
    \A c \in Clients :
        C13_Case(c) =>
            /\ st[c].result.kind = "response" /\ st[c].result.status = 400
            /\ st[c].readAt = 0 /\ st[c].log = <<>>
            /\ Tabs = st[c].pre

\* C14: a route handler whose sheet call was rejected answers with status 500
\* and an error text; the rejection does not leave the handler
C14_Case(c) == st[c].op \in RouteOps /\ st[c].pc = "done" /\ st[c].failed

C14_FailureIs500 ==
    \A c \in Clients :
        C14_Case(c) =>
            /\ st[c].result.kind = "response"
            /\ st[c].result.status = 500
            /\ st[c].result.message # ""


\* C15: a mounted RunningBanner has at most one 'adminDataUpdate' listener
\* and at most one interval timer registered, and one that is not mounted
\* has none
C15_OneListenerOneTimer ==
    /\ banner.mounted => Len(banner.listeners) <= 1 /\ Len(banner.timers) <= 1
    /\ ~banner.mounted => banner.listeners = <<>> /\ banner.timers = <<>>

\* the banner was taken off the page after its index had changed
C15_Witness ==
    /\ banner.last.op = "unmount" /\ banner.currentIndex = 2
    /\ ~banner.mounted /\ banner.listeners = <<>> /\ banner.timers = <<>>


\* C16: a successful initializeDriveSheet adds the drives tab only when the
\* spreadsheet had no tab of that name and writes the header row only when
\* row 1 was empty; on a tab whose row 1 holds values it issues no write; and
\* a call that directly follows a successful one leaves the spreadsheet as
\* that one left it
C16_Case(c) ==
    st[c].op = "initializeDriveSheet" /\ st[c].pc = "done" /\ st[c].result.success

C16_Issued(c, req) == \E i \in DOMAIN st[c].log : st[c].log[i].req = req

C16_InitializeOnce ==
    \A c \in Clients :
        C16_Case(c) =>
            /\ C16_Issued(c, "addSheet") <=> DRIVE_SHEET_NAME \notin st[c].pre.sheets
            /\ C16_Issued(c, "update") <=> Row1Empty(st[c].pre.drives)
            /\ ~Row1Empty(st[c].pre.drives) => st[c].log = <<>> /\ Tabs = st[c].pre
            /\ st[c].before # <<>> => st[c].log = <<>> /\ Tabs = st[c].pre

\* the first call added the tab and wrote the headers, the second has returned
C16_Witness ==
    /\ C16_Case(1)
    /\ st[1].before # <<>>
    /\ DRIVE_SHEET_NAME \notin st[1].before.sheets
    /\ st[1].pre.drives = <<DRIVE_SHEET_HEADERS>>


\* C17: a successful updateDrive(id, partial) issues one write, a
\* values.update of the row at position + 2 of the record with that id, whose
\* cells are the given fields over the stored ones with updatedAt refreshed;
\* the id and createdAt cells keep what was stored, and every other row of
\* the spreadsheet is as it was
C17_Case(c) == st[c].op = "updateDrive" /\ st[c].pc = "done" /\ st[c].result.success

C17_Column(header) == CHOOSE i \in DOMAIN DRIVE_SHEET_HEADERS : DRIVE_SHEET_HEADERS[i] = header

C17_UpdateWritesOneRow ==
    \A c \in Clients :
        C17_Case(c) =>
            LET stored    == st[c].pre.drives
                rowNumber == st[c].log[1].rowIndex
                written   == st[c].log[1].values[1]
                allDrives == getAllDrives(stored, st[c].readAt)
            IN  /\ Len(st[c].log) = 1 /\ st[c].log[1].req = "update"
                /\ rowNumber - 1 \in DOMAIN allDrives
                /\ DriveIdText(allDrives[rowNumber - 1]) = st[c].idParam
                /\ \A h \in {"title", "location", "date", "organizer", "contactEmail"} :
                       written[C17_Column(h)] = st[c].drive[h]
                /\ written[C17_Column("updatedAt")] = IsoStr[st[c].readAt]
                /\ written[C17_Column("id")] = stored[rowNumber][C17_Column("id")]
                /\ written[C17_Column("createdAt")] = stored[rowNumber][C17_Column("createdAt")]
                /\ Tabs = [st[c].pre EXCEPT !.drives = [stored EXCEPT ![rowNumber] = written]]


\* C18: whenever the banner renders a drive (not loading, list not empty),
\* 0 <= currentIndex < currentDrives.length; a render that threw is a render
\* of the state it left
C18_Renders == (banner.mounted \/ banner.crashed) /\ ~banner.isLoading /\ Len(banner.currentDrives) > 0

C18_IndexInBounds ==
    C18_Renders => 0 <= banner.currentIndex /\ banner.currentIndex < Len(banner.currentDrives)


\* C19: after an adminDataUpdate event for section 'currentDrives' the list
\* is that event's drives filtered to upcoming and open, and a timer tick or
\* an indicator click leaves the list as it was
C19_TicksKeepTheList ==
    [][banner'.last.op \in {"tick", "click"} => banner'.currentDrives = banner.currentDrives]_vars


\* C20: on a spreadsheet whose blog tab has sheetId 0, for every record that
\* readBlogFromSheet returns and that is the only one with its id, the id
\* defaulted from the row position or not, deleteBlogFromSheet called with
\* that id succeeds and removes the row the record was read from
C20_Case(c) ==
    /\ st[c].op = "deleteBlogFromSheet" /\ st[c].pc = "done" /\ ~st[c].failed
    /\ sheet0 = "blog"

C20_EveryReadIdDeletes ==
    \A c \in Clients :
        C20_Case(c) =>
            LET blogs == readBlogFromSheet(st[c].pre.blog, st[c].readAt)
            IN  \A i \in DOMAIN blogs :
                    {j \in DOMAIN blogs : blogs[j].id = st[c].blogId} = {i} =>
                        /\ st[c].result.success
                        /\ blogRows = RemoveAt(st[c].pre.blog, i)


\* C21: a writeBlogToSheet of one stored record sent back with another tag
\* list and nothing else changed reports updated = 1 and writes the row with
\* the new tags
C21_Case(c, i) ==
    /\ st[c].op = "writeBlogToSheet" /\ Succeeded(c)
    /\ Len(st[c].blogs) = 1
    /\ i \in DOMAIN SeenBlogs(c)
    /\ st[c].seen[i][1] = String(st[c].blogs[1].id)
    /\ \A j \in DOMAIN SeenBlogs(c) : SeenBlogs(c)[j].id = st[c].blogs[1].id => j = i
    /\ st[c].blogs[1].tags # SeenBlogs(c)[i].tags
    /\ st[c].blogs[1] = [SeenBlogs(c)[i] EXCEPT !.tags = st[c].blogs[1].tags]

C21_TagChangeIsAnUpdate ==
    \A c \in Clients : \A i \in DOMAIN st[c].seen :
        C21_Case(c, i) =>
            /\ st[c].result.updated = 1
            /\ Len(st[c].log) = 1 /\ st[c].log[1].req = "update"
            /\ blogRows[i][9] = JoinTags(st[c].blogs[1].tags)


\* C22: a getDriveById(d) that directly follows a successful addDrive which
\* returned a drive with id d, given by the caller or generated, finds a
\* record with that id among those of getAllDrives and returns it, with or
\* without a header row in the tab before the add
C22_Case(c) ==
    /\ st[c].op = "getDriveById" /\ st[c].pc = "done" /\ ~st[c].failed
    /\ st[c].before # <<>>
    /\ st[c].idParam = st[c].seen[Len(st[c].seen)][1]

C22_AddedDriveIsFound ==
    \A c \in Clients :
        C22_Case(c) =>
            LET allDrives == getAllDrives(st[c].seen, st[c].readAt)
            IN  /\ \E i \in DOMAIN allDrives : DriveIdText(allDrives[i]) = st[c].idParam
                /\ st[c].result.success

====
